---- MODULE Spec2Model ----
(***************************************************************************)
(* Model of package ssautil (construction of SSA programs):               *)
(*   Packages      builds one Program for a loaded package graph,         *)
(*   BuildPackage  type-checks one package and builds a Program for it.   *)
(* Both walk the import graph with a recursive closure and a map used as  *)
(* a memo.  The recursion is modelled with an explicit stack of frames;   *)
(* every call the functions make on their collaborators (the type         *)
(* checker, Program.CreatePackage, Package.Build) is appended to `log`.   *)
(***************************************************************************)
EXTENDS Integers, Sequences, FiniteSets, TLC

\* ---------------------------------------------------------------- bounds
NumPkgs == 4      \* package objects that exist besides BuildPackage's target
MaxEdges == 4     \* import edges in the graph
MaxBack == 1      \* import edges that do not go from a lower to a higher package
MaxIll == 1       \* packages that are not well typed
MaxInitial == 2   \* length of the initial list
MaxMode == 1      \* builder modes 0..MaxMode
NumErrs == 2      \* distinct errors the type checker may report

\* ---------------------------------------------------------------- values
Nil == 0                   \* the nil pointer / nil error / nil slice element
TheFset == 1               \* a non-nil *token.FileSet
OtherFset == 2             \* another non-nil *token.FileSet
Files == 1                 \* the non-nil files argument of BuildPackage
NewInfo == 1               \* the *types.Info allocated by BuildPackage
Pkgs == 1..NumPkgs         \* package objects (of go/packages, or dependency types.Packages)
Target == NumPkgs + 1      \* the pkg argument of BuildPackage
Modes == 0..MaxMode
Errors == 1..NumErrs
MaxDepth == NumPkgs + 2    \* recursion depth at which the goroutine stack is exhausted

\* ---------------------------------------------------------------- input graphs
FwdPairs == {e \in Pkgs \X Pkgs : e[1] < e[2]}
BackPairs == {e \in Pkgs \X Pkgs : e[1] >= e[2]}

\* Import graphs: apart from at most MaxBack edges (which close cycles,
\* self-imports included) the packages are numbered so that imports go from
\* lower to higher; the initial list ranges over all orders, so the numbering
\* loses no shape.
EdgeSets ==
  {F \cup B : F \in SUBSET FwdPairs,
              B \in {S \in SUBSET BackPairs : Cardinality(S) <= MaxBack}}

Graphs ==
  {[p \in Pkgs |-> {q \in Pkgs : <<p, q>> \in E}] :
      E \in {X \in EdgeSets : Cardinality(X) <= MaxEdges}}

SmallSubsets(S, n) == {X \in SUBSET S : Cardinality(X) <= n}

\* The pairs (packages with Types == nil, packages with IllTyped set).
IllChoices ==
  {c \in (SUBSET Pkgs) \X (SUBSET Pkgs) : Cardinality(c[1] \cup c[2]) <= MaxIll}

SeqsUpTo(S, n) == UNION {[1..k -> S] : k \in 0..n}

VARIABLES
  fn,          \* the function called: "none", "Packages" or "BuildPackage"
  pc,          \* position of the running call
  Imports,     \* Imports[p]: the packages p imports (p.Imports / p.Imports())
  TypesNil,    \* packages.Package objects whose Types field is nil
  IllTyped,    \* packages.Package objects whose IllTyped field is set
  fsetOf,      \* fsetOf[p]: the Fset field of packages.Package p
  initial,     \* argument of Packages
  mode,        \* argument of both
  fset,        \* argument of BuildPackage; local of Packages
  pathEmpty,   \* BuildPackage: pkg.Path() == ""
  pkgImports,  \* BuildPackage: pkg.Imports() after type checking
  prog,        \* the Program under construction
  seen,        \* Packages: the memo map
  created,     \* BuildPackage: the memo map (as the set of keys mapped to true)
  stack,       \* frames of the recursive closure, innermost last
  idx,         \* Packages: position of the range loop over initial (1-based)
  ssapkgs,     \* Packages: the result list
  info,        \* BuildPackage: local info
  ssapkg,      \* BuildPackage: local ssapkg
  ret,         \* BuildPackage: the returned triple
  log,         \* calls made on the collaborators, in order
  inv,         \* concurrent calls of Packages: inv[i] holds the locals of call i
  caches,      \* concurrent calls: the memo maps that were made, by map
  progPkgs,    \* concurrent calls: the CreatePackage calls, by Program
  elemOf,      \* types: elemOf[T] is the element type of T.Underlying() when
               \* that is a pointer, and Nil otherwise
  dpc,         \* Dereference / DereferenceR: position of the call
  dfn,         \* which of the two was called
  darg,        \* the argument T of the outermost call
  dcur,        \* the argument T of the innermost call
  ddepth,      \* the number of nested calls
  dres         \* the value returned

inputs == <<fn, Imports, TypesNil, IllTyped, fsetOf, initial, mode, pathEmpty>>
pkgsVars == <<seen, idx, ssapkgs>>
buildVars == <<pkgImports, created, info, ssapkg, ret>>
concVars == <<inv, caches, progPkgs>>
derefVars == <<elemOf, dpc, dfn, darg, dcur, ddepth, dres>>
otherVars == <<concVars, derefVars>>
ssaVars == <<pc, inputs, fset, prog, pkgsVars, buildVars, stack, log>>
vars == <<pc, inputs, fset, prog, pkgsVars, buildVars, stack, log, otherVars>>

NoProg == [made |-> FALSE, fset |-> Nil, mode |-> 0]
NoRet == [ssapkg |-> Nil, info |-> Nil, err |-> Nil]
EmptyMap == [x \in {} |-> Nil]

Init ==
  /\ fn = "none"
  /\ pc = "idle"
  /\ Imports = [p \in Pkgs |-> {}]
  /\ TypesNil = {}
  /\ IllTyped = {}
  /\ fsetOf = [p \in Pkgs |-> TheFset]
  /\ initial = <<>>
  /\ mode = 0
  /\ fset = Nil
  /\ pathEmpty = FALSE
  /\ pkgImports = {}
  /\ prog = NoProg
  /\ seen = EmptyMap
  /\ created = {}
  /\ stack = <<>>
  /\ idx = 1
  /\ ssapkgs = <<>>
  /\ info = Nil
  /\ ssapkg = Nil
  /\ ret = NoRet
  /\ log = <<>>
  /\ inv = <<>>
  /\ caches = <<>>
  /\ progPkgs = <<>>
  /\ elemOf = <<>>
  /\ dpc = "idle"
  /\ dfn = "none"
  /\ darg = Nil
  /\ dcur = Nil
  /\ ddepth = 0
  /\ dres = Nil

\* ---------------------------------------------------------------- collaborators
\* One entry of log.  op is "Files" (types.Checker.Files), "CreatePackage"
\* or "Build"; ret is the value the call returned.
Call(op, pkg, syntax, inf, importable, r) ==
  [op |-> op, pkg |-> pkg, syntax |-> syntax, info |-> inf,
   importable |-> importable, ret |-> r]

CreateCalls(l) == {i \in 1..Len(l) : l[i].op = "CreatePackage"}

\* ssa.Program.CreatePackage allocates a new ssa.Package on every call:
\* the n-th call returns package instance n.
NewPackage(l) == Cardinality(CreateCalls(l)) + 1

NewProgram(f, m) == [made |-> TRUE, fset |-> f, mode |-> m]

\* ---------------------------------------------------------------- Packages
\* Fields of a packages.Package.
TypesOf(p) == IF p \in TypesNil THEN Nil ELSE p
SyntaxOf(p) == p
TypesInfoOf(p) == p

\* A variant that takes the Fset of the first package that has one.
FirstCarrierFset(init) ==
  IF \E i \in 1..Len(init) : fsetOf[init[i]] # Nil
    THEN fsetOf[init[CHOOSE i \in 1..Len(init) :
                       /\ fsetOf[init[i]] # Nil
                       /\ \A j \in 1..(i - 1) : fsetOf[init[j]] = Nil]]
    ELSE Nil

\* Lines 30-33.
FirstFset(init) == IF Len(init) > 0 THEN fsetOf[init[1]] ELSE Nil

\* A variant that tests the IllTyped flag only.
NotWellTypedFlagOnly(p) == p \in IllTyped

\* Line 41.
NotWellTyped(p) == TypesOf(p) = Nil \/ p \in IllTyped

\* A variant that never finds p in the memo.
InSeenNever(p) == p \in {}

\* Lines 39-40: ssapkg, ok := seen[p].
InSeen(p) == p \in DOMAIN seen

\* A variant that leaves the memo as it is.
SeenStoreNone(p, v) == seen

\* Line 48 (and 43): seen[p] = v.
SeenStore(p, v) == [q \in DOMAIN seen \cup {p} |-> IF q = p THEN v ELSE seen[q]]

\* Lines 29-37 and 57, for a package graph of G, well-typedness of I, an
\* initial list of L and a mode of M.
PackagesCall(G, I, L, M) ==
  /\ pc = "idle"
  /\ \E g \in G, ill \in I, init \in L, m \in M :
       /\ fn' = "Packages"
       /\ Imports' = g
       /\ TypesNil' = ill[1]
       /\ IllTyped' = ill[2]
       /\ initial' = init
       /\ mode' = m
       /\ fset' = FirstFset(init)
       /\ prog' = NewProgram(FirstFset(init), m)
  /\ seen' = EmptyMap
  /\ ssapkgs' = <<>>
  /\ idx' = 1
  /\ pc' = "P58"
  /\ UNCHANGED <<otherVars, fsetOf, pathEmpty, buildVars, stack, log>>

PackagesEntry ==
  PackagesCall(Graphs, IllChoices, SeqsUpTo(Pkgs, MaxInitial), Modes)

\* A variant that goes on to the imports of a package that is not well typed.
SentinelFrameDescends(p) == [p |-> p, ssapkg |-> Nil, todo |-> Imports[p]]

\* Lines 42-44: the frame of a call that found p not well typed returns nil
\* and visits no import.
SentinelFrame(p) == [p |-> p, ssapkg |-> Nil, todo |-> {}]

\* A variant that visits the imports again when p is found in the memo.
HitFrameDescends(p) == [p |-> p, ssapkg |-> seen[p], todo |-> Imports[p]]

\* A variant that returns nil when p is found in the memo.
HitFrameNil(p) == [p |-> p, ssapkg |-> Nil, todo |-> {}]

\* Lines 39-40 and 54: the frame of a call that found p in the memo returns
\* the value found and visits no import.
HitFrame(p) == [p |-> p, ssapkg |-> seen[p], todo |-> {}]

\* A variant that visits no import.
ImportsToVisitNone(p) == Imports[p] \ Pkgs

\* Line 50: the imports the loop ranges over.
ImportsToVisit(p) == Imports[p]

\* create(p), lines 38-48: the call and the body up to the loop over the
\* imports, on top of the caller's frames `base`.  The new frame holds the
\* local ssapkg and the imports still to visit.  A call that finds MaxDepth
\* frames exhausts the stack.
CreateCall(p, base) ==
  IF Len(base) >= MaxDepth
    THEN /\ pc' = "overflow"
         /\ UNCHANGED <<stack, seen, log>>
    ELSE
      /\ pc' = pc
      /\ IF InSeen(p)
           THEN /\ stack' = Append(base, HitFrame(p))
                /\ UNCHANGED <<seen, log>>
           ELSE IF NotWellTyped(p)
             THEN /\ seen' = SeenStore(p, Nil)
                  /\ stack' = Append(base, SentinelFrame(p))
                  /\ UNCHANGED log
             ELSE /\ log' = Append(log, Call("CreatePackage", TypesOf(p), SyntaxOf(p),
                                             TypesInfoOf(p), TRUE, NewPackage(log)))
                  /\ seen' = SeenStore(p, NewPackage(log))
                  /\ stack' = Append(base, [p |-> p, ssapkg |-> NewPackage(log),
                                            todo |-> ImportsToVisit(p)])

\* Lines 58-59: the range loop over initial calls create(p).
PackagesLoop ==
  /\ pc = "P58"
  /\ stack = <<>>
  /\ idx <= Len(initial)
  /\ CreateCall(initial[idx], stack)
  /\ UNCHANGED <<otherVars, inputs, fset, prog, idx, ssapkgs, buildVars>>

\* A variant whose loop over the imports ends at the first import that is
\* found in the memo.
CreateRecurseBreaks ==
  /\ pc = "P58"
  /\ stack # <<>>
  /\ \E imp \in stack[Len(stack)].todo :
       CreateCall(imp, [stack EXCEPT ![Len(stack)].todo =
                          IF InSeen(imp) THEN {} ELSE @ \ {imp}])
  /\ UNCHANGED <<otherVars, inputs, fset, prog, idx, ssapkgs, buildVars>>

\* Lines 50-51: the range loop over p.Imports (a map, so in any order)
\* calls create(imp).
CreateRecurse ==
  /\ pc = "P58"
  /\ stack # <<>>
  /\ \E imp \in stack[Len(stack)].todo :
       CreateCall(imp, [stack EXCEPT ![Len(stack)].todo = @ \ {imp}])
  /\ UNCHANGED <<otherVars, inputs, fset, prog, idx, ssapkgs, buildVars>>

\* A variant that puts v in front.
PrependResult(l, v) == <<v>> \o l

\* Line 59: ssapkgs = append(ssapkgs, v).
AppendResult(l, v) == Append(l, v)

\* Line 54: return ssapkg.  The value returned to the loop over the imports
\* is dropped (line 51); the one returned to the loop over initial is
\* appended to ssapkgs (line 59).
CreateReturn ==
  /\ pc = "P58"
  /\ stack # <<>>
  /\ stack[Len(stack)].todo = {}
  /\ stack' = SubSeq(stack, 1, Len(stack) - 1)
  /\ IF Len(stack) = 1
       THEN /\ ssapkgs' = AppendResult(ssapkgs, stack[Len(stack)].ssapkg)
            /\ idx' = idx + 1
       ELSE UNCHANGED <<ssapkgs, idx>>
  /\ UNCHANGED <<otherVars, pc, inputs, fset, prog, seen, buildVars, log>>

\* A variant that calls Build on every created package before it returns.
PackagesReturnBuilds ==
  /\ pc = "P58"
  /\ stack = <<>>
  /\ idx > Len(initial)
  /\ pc' = "done"
  /\ log' = log \o [k \in 1..Cardinality(CreateCalls(log)) |->
                      Call("Build", k, Nil, Nil, FALSE, Nil)]
  /\ UNCHANGED <<otherVars, inputs, fset, prog, pkgsVars, buildVars, stack>>

\* Line 61: return prog, ssapkgs.
PackagesReturn ==
  /\ pc = "P58"
  /\ stack = <<>>
  /\ idx > Len(initial)
  /\ pc' = "done"
  /\ UNCHANGED <<otherVars, inputs, fset, prog, pkgsVars, buildVars, stack, log>>

\* ---------------------------------------------------------------- BuildPackage
\* The call: the arguments, and the types.Packages the importer of tc can
\* supply with their import lists.  The target is the package this call
\* checks, so no loaded dependency lists it among its imports.
BuildPackageCall(G, F, E, M) ==
  /\ pc = "idle"
  /\ \E g \in G, f \in F, e \in E, m \in M :
       /\ fn' = "BuildPackage"
       /\ Imports' = g
       /\ fset' = f
       /\ pathEmpty' = e
       /\ mode' = m
  /\ pc' = "B80"
  /\ UNCHANGED <<otherVars, TypesNil, IllTyped, fsetOf, initial, prog, pkgsVars, buildVars, stack, log>>

BuildPackageEntry ==
  BuildPackageCall(Graphs, {Nil, TheFset}, BOOLEAN, Modes)

\* Lines 80-82.
CheckFset ==
  /\ pc = "B80"
  /\ pc' = IF fset = Nil THEN "panic" ELSE "B83"
  /\ UNCHANGED <<otherVars, inputs, fset, prog, pkgsVars, buildVars, stack, log>>

\* A variant that accepts every path.
PathNeverEmpty == pathEmpty /\ ~pathEmpty

\* Line 83: pkg.Path() == "".
PathIsEmpty == pathEmpty

\* Lines 83-85.
CheckPath ==
  /\ pc = "B83"
  /\ pc' = IF PathIsEmpty THEN "panic" ELSE "B87"
  /\ UNCHANGED <<otherVars, inputs, fset, prog, pkgsVars, buildVars, stack, log>>

\* Lines 87-94.
AllocInfo ==
  /\ pc = "B87"
  /\ info' = NewInfo
  /\ pc' = "B95"
  /\ UNCHANGED <<otherVars, inputs, fset, prog, pkgsVars, pkgImports, created, ssapkg, ret, stack, log>>

\* A variant that returns the info record along with the error.
ErrReturnKeepsInfo(err) == [ssapkg |-> Nil, info |-> info, err |-> err]

\* Line 96: return nil, nil, err.
ErrReturn(err) == [ssapkg |-> Nil, info |-> Nil, err |-> err]

\* Lines 95-97: the checker runs over files and either reports an error,
\* which is returned, or leaves the imports of pkg set.
TypeCheck ==
  /\ pc = "B95"
  /\ \E err \in {Nil} \cup Errors, imps \in SUBSET Pkgs :
       /\ log' = Append(log, Call("Files", Target, Files, info, FALSE, err))
       /\ IF err # Nil
            THEN /\ ret' = ErrReturn(err)
                 /\ pc' = "done"
                 /\ UNCHANGED pkgImports
            ELSE /\ pkgImports' = imps
                 /\ pc' = "B99"
                 /\ UNCHANGED ret
  /\ UNCHANGED <<otherVars, inputs, fset, prog, pkgsVars, created, info, ssapkg, stack>>

\* Lines 99-104 and 114: the Program, the empty memo, and the call
\* createAll(pkg.Imports()).  A frame of createAll holds the packages of
\* pkgs the loop has still to visit.
NewProgramAndWalk ==
  /\ pc = "B99"
  /\ prog' = NewProgram(fset, mode)
  /\ created' = {}
  /\ stack' = <<[todo |-> pkgImports]>>
  /\ pc' = "B106"
  /\ UNCHANGED <<otherVars, inputs, fset, pkgsVars, pkgImports, info, ssapkg, ret, log>>

\* A variant that takes every package as not yet created.
NotCreatedAlways(p) == p \in Pkgs

\* Line 107: !created[p].
NotCreated(p) == p \notin created

\* Lines 106-111: one iteration of the loop of createAll.  The slice is
\* visited in its order, which is any order of its elements.
CreateAllStep ==
  /\ pc = "B106"
  /\ stack # <<>>
  /\ \E p \in stack[Len(stack)].todo :
       LET base == [stack EXCEPT ![Len(stack)].todo = @ \ {p}] IN
         IF NotCreated(p)
           THEN IF Len(base) >= MaxDepth
             THEN /\ pc' = "overflow"
                  /\ UNCHANGED <<stack, created, log>>
             ELSE /\ created' = created \cup {p}
                  /\ log' = Append(log, Call("CreatePackage", p, Nil, Nil, TRUE,
                                             NewPackage(log)))
                  /\ stack' = Append(base, [todo |-> Imports[p]])
                  /\ pc' = pc
           ELSE /\ stack' = base
                /\ UNCHANGED <<pc, created, log>>
  /\ UNCHANGED <<otherVars, inputs, fset, prog, pkgsVars, pkgImports, info, ssapkg, ret>>

\* Line 113: createAll returns when its loop is over.
CreateAllReturn ==
  /\ pc = "B106"
  /\ stack # <<>>
  /\ stack[Len(stack)].todo = {}
  /\ stack' = SubSeq(stack, 1, Len(stack) - 1)
  /\ pc' = IF Len(stack) = 1 THEN "B117" ELSE pc
  /\ UNCHANGED <<otherVars, inputs, fset, prog, pkgsVars, buildVars, log>>

\* A variant that passes true as the last argument.
CreatePrimaryFlagSet ==
  /\ pc = "B117"
  /\ log' = Append(log, Call("CreatePackage", Target, Files, info, TRUE,
                             NewPackage(log)))
  /\ ssapkg' = NewPackage(log)
  /\ pc' = "B118"
  /\ UNCHANGED <<otherVars, inputs, fset, prog, pkgsVars, pkgImports, created, info, ret, stack>>

\* Line 117.
CreatePrimary ==
  /\ pc = "B117"
  /\ log' = Append(log, Call("CreatePackage", Target, Files, info, FALSE,
                             NewPackage(log)))
  /\ ssapkg' = NewPackage(log)
  /\ pc' = "B118"
  /\ UNCHANGED <<otherVars, inputs, fset, prog, pkgsVars, pkgImports, created, info, ret, stack>>

\* Line 118: the receiver of Build.
BuildReceiver == ssapkg

\* A variant that calls Build on every package of the Program.
BuildPrimaryAll ==
  /\ pc = "B118"
  /\ log' = log \o [k \in 1..Cardinality(CreateCalls(log)) |->
                      Call("Build", k, Nil, Nil, FALSE, Nil)]
  /\ pc' = "B119"
  /\ UNCHANGED <<otherVars, inputs, fset, prog, pkgsVars, buildVars, stack>>

\* Line 118: ssapkg.Build().
BuildPrimary ==
  /\ pc = "B118"
  /\ log' = Append(log, Call("Build", BuildReceiver, Nil, Nil, FALSE, Nil))
  /\ pc' = "B119"
  /\ UNCHANGED <<otherVars, inputs, fset, prog, pkgsVars, buildVars, stack>>

\* Line 119.
BuildPackageReturn ==
  /\ pc = "B119"
  /\ ret' = [ssapkg |-> ssapkg, info |-> info, err |-> Nil]
  /\ pc' = "done"
  /\ UNCHANGED <<otherVars, inputs, fset, prog, pkgsVars, pkgImports, created, info, ssapkg, stack, log>>

Next ==
  \/ PackagesEntry
  \/ PackagesLoop
  \/ CreateRecurse
  \/ CreateReturn
  \/ PackagesReturn
  \/ BuildPackageEntry
  \/ CheckFset
  \/ CheckPath
  \/ AllocInfo
  \/ TypeCheck
  \/ NewProgramAndWalk
  \/ CreateAllStep
  \/ CreateAllReturn
  \/ CreatePrimary
  \/ BuildPrimary
  \/ BuildPackageReturn

Spec == Init /\ [][Next]_vars

\* The walks alone: every package graph, one initial package (or none), all
\* packages well typed, one mode, preconditions met; the running call is
\* never left suspended.
PackagesEntryWalk ==
  PackagesCall(Graphs, {<<{}, {}>>}, SeqsUpTo(Pkgs, 1), {0})

BuildPackageEntryWalk ==
  BuildPackageCall(Graphs, {TheFset}, {FALSE}, {0})

NextWalk ==
  \/ PackagesEntryWalk
  \/ PackagesLoop
  \/ CreateRecurse
  \/ CreateReturn
  \/ PackagesReturn
  \/ BuildPackageEntryWalk
  \/ CheckFset
  \/ CheckPath
  \/ AllocInfo
  \/ TypeCheck
  \/ NewProgramAndWalk
  \/ CreateAllStep
  \/ CreateAllReturn
  \/ CreatePrimary
  \/ BuildPrimary
  \/ BuildPackageReturn

WalkSpec == Init /\ [][NextWalk]_vars /\ WF_vars(NextWalk)

\* ---------------------------------------------------------------- properties
Range(s) == {s[i] : i \in 1..Len(s)}

RECURSIVE Closure(_)
\* The packages reachable from S along imports, S included.
Closure(S) ==
  LET T == S \cup UNION {Imports[p] : p \in S}
  IN IF T = S THEN S ELSE Closure(T)

RECURSIVE WellClosure(_)
\* The packages reachable from S along imports of well-typed packages only,
\* S included.
WellClosure(S) ==
  LET T == S \cup UNION {Imports[p] : p \in {q \in S : ~NotWellTyped(q)}}
  IN IF T = S THEN S ELSE WellClosure(T)

BuildCalls(l) == {i \in 1..Len(l) : l[i].op = "Build"}
CheckCalls(l) == {i \in 1..Len(l) : l[i].op = "Files"}
CreatesOf(t) == {k \in CreateCalls(log) : log[k].pkg = t}

PackagesDone == fn = "Packages" /\ pc = "done"
BuildDone == fn = "BuildPackage" /\ pc = "done" /\ ret.err = Nil

\* v is the ssa.Package a CreatePackage call of this run returned for the
\* types.Package of p.
Wraps(v, p) ==
  /\ v # Nil
  /\ \E k \in CreateCalls(log) : log[k].ret = v /\ log[k].pkg = TypesOf(p)

\* Distinct b, c and d with b and c in S and d imported by both.
DiamondBelow(S) ==
  \E b \in S, c \in S, d \in Pkgs :
    /\ b # c /\ d # b /\ d # c
    /\ d \in Imports[b] \cap Imports[c]

\* C1: all through a call of Packages, no two CreatePackage calls are for
\* the same type-checked package: the Program holds at most one ssa.Package
\* per package, whatever the graph and the initial list.
SingleCreation ==
  fn = "Packages" =>
    \A i \in CreateCalls(log), j \in CreateCalls(log) :
      log[i].pkg = log[j].pkg => i = j

\* A finished call on one initial package at the top of a diamond, with all
\* four packages created.
DiamondBuilt ==
  /\ PackagesDone
  /\ Len(initial) = 1
  /\ DiamondBelow(Imports[initial[1]] \ {initial[1]})
  /\ Cardinality(CreateCalls(log)) = 4

\* C2: when Packages returns, the result has the length of initial and its
\* i-th element is the ssa.Package created for the types.Package of
\* initial[i] (nil where initial[i] is not well typed), also when it was
\* created while an earlier initial package was processed.
OrderPreserved ==
  PackagesDone =>
    /\ Len(ssapkgs) = Len(initial)
    /\ \A i \in 1..Len(initial) :
         IF NotWellTyped(initial[i])
           THEN ssapkgs[i] = Nil
           ELSE Wraps(ssapkgs[i], initial[i])

\* A finished call whose second initial package is imported by the first,
\* so that it was created before the loop reached it.
SharedEarlier ==
  /\ PackagesDone
  /\ Len(initial) = 2
  /\ initial[1] # initial[2]
  /\ initial[2] \in Imports[initial[1]]
  /\ ~NotWellTyped(initial[1]) /\ ~NotWellTyped(initial[2])
  /\ ssapkgs[2] # Nil
  /\ ssapkgs[1] # ssapkgs[2]

\* C3: a call of Packages never panics or runs out of stack, and when it
\* returns the result is nil at exactly the indices of the initial packages
\* that are not well typed (Types nil or IllTyped set).
SentinelIsolation ==
  fn = "Packages" =>
    /\ pc \notin {"panic", "overflow"}
    /\ pc = "done" =>
         /\ Len(ssapkgs) = Len(initial)
         /\ \A i \in 1..Len(initial) :
              ssapkgs[i] = Nil <=> (initial[i] \in TypesNil \/ initial[i] \in IllTyped)

\* A finished call with a package without Types first and a well-typed one
\* after it.
SentinelBesideValid ==
  /\ PackagesDone
  /\ Len(initial) = 2
  /\ initial[1] \in TypesNil /\ initial[1] \notin IllTyped
  /\ initial[2] \notin TypesNil \cup IllTyped
  /\ ssapkgs[1] = Nil /\ ssapkgs[2] # Nil

\* C4: all through a call of BuildPackage, Build is called at most once, on
\* the ssa.Package created for the target, after every CreatePackage call;
\* a successful call has called it exactly once, after all dependencies
\* were created.
BuildOnlyPrimary ==
  fn = "BuildPackage" =>
    /\ Cardinality(BuildCalls(log)) <= 1
    /\ \A i \in BuildCalls(log) :
         /\ \E k \in CreatesOf(Target) : log[k].ret = log[i].pkg
         /\ \A k \in CreateCalls(log) : k < i
         /\ \A p \in Closure(pkgImports) : CreatesOf(p) # {}
    /\ BuildDone => Cardinality(BuildCalls(log)) = 1

\* A successful call whose target has at least two dependencies.
BuiltWithDeps ==
  /\ BuildDone
  /\ Cardinality(Closure(pkgImports)) >= 2
  /\ BuildCalls(log) # {}

\* C5: once the checker has reported an error, BuildPackage has returned
\* (nil, nil, that error): no Program was made, and the checker call is the
\* only call it made.
CheckFailure ==
  fn = "BuildPackage" =>
    \A i \in CheckCalls(log) : log[i].ret # Nil =>
      /\ pc = "done"
      /\ ret = [ssapkg |-> Nil, info |-> Nil, err |-> log[i].ret]
      /\ ~prog.made
      /\ Len(log) = 1
      /\ stack = <<>>

\* A call that returned the last of the checker's errors.
FailedCheck ==
  /\ fn = "BuildPackage"
  /\ pc = "done"
  /\ ret.err = NumErrs

\* C6: a call of BuildPackage with a nil fset or an empty path gets no
\* further than the two checks: it allocates no info, calls no checker and
\* makes no Program; a panic has one of the two as its cause.
PreconditionFatal ==
  fn = "BuildPackage" =>
    /\ (fset = Nil \/ pathEmpty) =>
         /\ pc \in {"B80", "B83", "panic"}
         /\ info = Nil
         /\ log = <<>>
         /\ ~prog.made
    /\ pc = "panic" => (fset = Nil \/ pathEmpty)
    /\ CheckCalls(log) # {} => (fset # Nil /\ ~pathEmpty)

\* A panic for the empty path alone.
PanicOnPath ==
  /\ fn = "BuildPackage"
  /\ pc = "panic"
  /\ fset # Nil
  /\ pathEmpty

\* C7: all through a call of Packages, in every mode, the only calls made
\* on the Program are CreatePackage calls: Build is never called.
NoBuildInPackages ==
  fn = "Packages" =>
    \A i \in 1..Len(log) : log[i].op = "CreatePackage"

\* A finished call in a mode other than 0 that created several packages.
PackagesDoneWithMode ==
  /\ PackagesDone
  /\ mode # 0
  /\ Cardinality(CreateCalls(log)) >= 2

\* C8: after a successful call of BuildPackage, each package reachable from
\* the imports of the target was created exactly once, without syntax and
\* info; the target was created exactly once, with files and the info
\* record that is returned; nothing else was created.
DependencyStubs ==
  BuildDone =>
    /\ \A p \in Closure(pkgImports) :
         /\ Cardinality(CreatesOf(p)) = 1
         /\ \A k \in CreatesOf(p) : log[k].syntax = Nil /\ log[k].info = Nil
    /\ Cardinality(CreatesOf(Target)) = 1
    /\ \A k \in CreatesOf(Target) :
         /\ log[k].syntax = Files
         /\ log[k].info = NewInfo
         /\ log[k].info = ret.info
         /\ log[k].ret = ret.ssapkg
    /\ \A k \in CreateCalls(log) : log[k].pkg \in Closure(pkgImports) \cup {Target}

\* A successful call whose target imports the two sides of a diamond.
DiamondStubs ==
  /\ BuildDone
  /\ DiamondBelow(pkgImports)

\* C9: every call comes to its end (a return, or the panic of a failed
\* precondition), on every package graph, cyclic ones included: neither
\* walk runs on for ever or exhausts the stack.
Terminates == <>(pc \in {"done", "panic"})

\* A finished call of Packages that walked round a cycle of two packages.
CycleWalked ==
  /\ PackagesDone
  /\ \E a \in Pkgs, b \in Pkgs :
       /\ a # b
       /\ b \in Imports[a] /\ a \in Imports[b]
       /\ a \in DOMAIN seen /\ b \in DOMAIN seen
       /\ seen[a] # Nil /\ seen[b] # Nil

\* C10: all through a call of Packages, a package that is not well typed
\* is in the memo only as nil, has no ssa.Package created and no frame that
\* visits its imports; the memo holds only packages of the initial list or
\* imported by a package reached along well-typed packages.
NoDescent ==
  fn = "Packages" =>
    /\ \A p \in DOMAIN seen : NotWellTyped(p) => seen[p] = Nil
    /\ \A k \in CreateCalls(log) :
         log[k].syntax \notin TypesNil \cup IllTyped
    /\ \A f \in 1..Len(stack) :
         (stack[f].p \in TypesNil \cup IllTyped) => stack[f].todo = {}
    /\ DOMAIN seen \subseteq WellClosure(Range(initial))

\* A finished call that met a package that is not well typed and left one
\* of its imports out of the memo.
ImportLeftOut ==
  /\ PackagesDone
  /\ \E p \in DOMAIN seen :
       /\ NotWellTyped(p)
       /\ \E q \in Imports[p] : q \notin DOMAIN seen

\* C11: a call of create on a package that is already a key of the memo,
\* whether mapped to a package or to nil, changes neither the memo nor the
\* Program (it makes no CreatePackage call); its frame returns the value
\* found in the memo and visits no import.
ReentryIdempotent ==
  [][(/\ fn = "Packages"
      /\ Len(stack') = Len(stack) + 1
      /\ stack'[Len(stack')].p \in DOMAIN seen)
     => (/\ seen' = seen
         /\ log' = log
         /\ prog' = prog
         /\ stack'[Len(stack')].ssapkg = seen[stack'[Len(stack')].p]
         /\ stack'[Len(stack')].todo = {})]_vars

\* The loop over initial has just called create on a package it met
\* before, one that was created and has imports: the call returns the
\* package of the first result.
ReenteredInitial ==
  /\ fn = "Packages"
  /\ pc = "P58"
  /\ Len(initial) = 2
  /\ initial[1] = initial[2]
  /\ idx = 2
  /\ Len(stack) = 1
  /\ Imports[initial[2]] # {}
  /\ stack[1].p = initial[2]
  /\ stack[1].todo = {}
  /\ stack[1].ssapkg # Nil
  /\ stack[1].ssapkg = ssapkgs[1]

Min(S) == CHOOSE x \in S : \A y \in S : x <= y

RECURSIVE CanonCreate(_, _), CanonCreateEach(_, _)
\* The walk of create in one fixed order, lowest package first: m is the
\* pair (keys of the memo, keys mapped to nil) before the call, the value is
\* the pair after it.
CanonCreate(p, m) ==
  IF p \in m[1] THEN m
  ELSE IF NotWellTyped(p) THEN <<m[1] \cup {p}, m[2] \cup {p}>>
  ELSE CanonCreateEach(Imports[p], <<m[1] \cup {p}, m[2]>>)

CanonCreateEach(T, m) ==
  IF T = {} THEN m
  ELSE CanonCreateEach(T \ {Min(T)}, CanonCreate(Min(T), m))

RECURSIVE CanonCreateAll(_, _)
\* The walk of createAll in one fixed order: C is the set of keys of
\* created before the call, the value is the set after it.
CanonCreateAll(T, C) ==
  IF T = {} THEN C
  ELSE CanonCreateAll(T \ {Min(T)},
                      IF Min(T) \in C THEN C
                      ELSE CanonCreateAll(Imports[Min(T)], C \cup {Min(T)}))

\* C12: whatever the order in which the imports were visited and whatever
\* the order of the initial list, the memo of a finished call of Packages
\* has the keys, and the keys mapped to nil, of the walk that takes the
\* initial packages and the imports lowest first; the dependencies a
\* successful BuildPackage created are those of createAll in that order.
OrderIndependent ==
  /\ PackagesDone =>
       /\ DOMAIN seen = CanonCreateEach(Range(initial), <<{}, {}>>)[1]
       /\ {p \in DOMAIN seen : seen[p] = Nil} =
            CanonCreateEach(Range(initial), <<{}, {}>>)[2]
  /\ BuildDone =>
       /\ created = CanonCreateAll(pkgImports, {})
       /\ {log[k].pkg : k \in CreateCalls(log)} \ {Target} =
            CanonCreateAll(pkgImports, {})

\* A finished call of Packages on two initial packages, the higher first,
\* in which a package had the higher of two imports created before the
\* lower.
WalkedOutOfOrder ==
  /\ PackagesDone
  /\ Len(initial) = 2
  /\ initial[1] > initial[2]
  /\ \E p \in Pkgs, q \in Pkgs, r \in Pkgs :
       /\ q < r
       /\ {q, r} \subseteq Imports[p]
       /\ p \notin {q, r}
       /\ \E i \in CreatesOf(p), j \in CreatesOf(r), k \in CreatesOf(q) :
            i < j /\ j < k

\* ---------------------------------------------------------------- position tables
\* The Fset fields of the packages handed to Packages: each is nil or one
\* of two FileSets (nothing in Packages makes them agree).
SetFsets ==
  /\ pc = "idle"
  /\ fn = "none"
  /\ fsetOf = [p \in Pkgs |-> TheFset]
  /\ fsetOf' \in [Pkgs -> {Nil, TheFset, OtherFset}]
  /\ fsetOf' # fsetOf
  /\ UNCHANGED <<otherVars, pc, fn, Imports, TypesNil, IllTyped, initial, mode,
                 pathEmpty, fset, prog, pkgsVars, buildVars, stack, log>>

\* Graphs with at most one import edge.
SparseGraphs ==
  {g \in Graphs : Cardinality({e \in Pkgs \X Pkgs : e[2] \in g[e[1]]}) <= 1}

PackagesEntryFset ==
  PackagesCall(SparseGraphs, {<<{}, {}>>}, SeqsUpTo(Pkgs, MaxInitial), Modes)

NextFset ==
  \/ SetFsets
  \/ PackagesEntryFset
  \/ PackagesLoop
  \/ CreateRecurse
  \/ CreateReturn
  \/ PackagesReturn

\* Calls of Packages on packages with any Fset fields.
FsetSpec == Init /\ [][NextFset]_vars

\* C13, as stated: the Program has the position table of the first package
\* of the initial list that carries one (none if no package does).
FsetOfFirstCarrier ==
  fn = "Packages" =>
    /\ prog.made
    /\ IF \E i \in 1..Len(initial) : fsetOf[initial[i]] # Nil
         THEN \E i \in 1..Len(initial) :
                /\ fsetOf[initial[i]] # Nil
                /\ \A j \in 1..(i - 1) : fsetOf[initial[j]] = Nil
                /\ prog.fset = fsetOf[initial[i]]
         ELSE prog.fset = Nil
    /\ (pc = "done" /\ initial = <<>>) => ssapkgs = <<>>

\* C13, amended: the Program has the Fset field of the first package of the
\* initial list, nil or not, whatever the later packages carry; for an empty
\* list the Program is made all the same, without position table, and the
\* result list is empty.
FsetOfFirstPackage ==
  fn = "Packages" =>
    /\ prog.made
    /\ prog.mode = mode
    /\ initial # <<>> => prog.fset = fsetOf[Head(initial)]
    /\ initial = <<>> => prog.fset = Nil
    /\ (pc = "done" /\ initial = <<>>) => ssapkgs = <<>>

\* A finished call whose first package has no Fset while the second has one.
FirstWithoutFset ==
  /\ PackagesDone
  /\ Len(initial) = 2
  /\ fsetOf[initial[1]] = Nil
  /\ fsetOf[initial[2]] # Nil
  /\ prog.made

\* C14, as stated: BuildPackage passes false as the last argument of
\* CreatePackage for every imported package and true for the target.
FlagSetForTarget ==
  fn = "BuildPackage" =>
    \A k \in CreateCalls(log) :
      log[k].importable = (log[k].pkg = Target)

\* C14, amended: BuildPackage passes true as the last argument of
\* CreatePackage for every imported package and false for the target.
FlagSetForImports ==
  fn = "BuildPackage" =>
    \A k \in CreateCalls(log) :
      log[k].importable = (log[k].pkg # Target)

\* A successful call that created an imported package and the target.
FlagsOfBoth ==
  /\ BuildDone
  /\ CreatesOf(Target) # {}
  /\ \E p \in Pkgs : CreatesOf(p) # {}

\* ---------------------------------------------------------------- concurrent calls
\* Two calls running at once on packages of one graph, their steps
\* interleaved in any way.  Each call is Packages, or BuildPackage from line
\* 99 on (what comes before touches nothing but arguments and the info
\* record of the call); the targets of two BuildPackage calls are distinct
\* packages.  prog, seen, created, ssapkgs and ssapkg are locals of a call:
\* a call reaches its Program and its memo through ProgOf and MemoOf.
Invs == {1, 2}
NoPkg == <<Nil, Nil>>
TargetOf(i) == NumPkgs + i

\* Graphs with at most two import edges.
ConcGraphs ==
  {g \in Graphs : Cardinality({e \in Pkgs \X Pkgs : e[2] \in g[e[1]]}) <= 2}

MapStore(f, k, v) == [x \in DOMAIN f \cup {k} |-> IF x = k THEN v ELSE f[x]]

\* A variant with one memo for all calls.
MemoShared(i) == Min(Invs)

\* Lines 36 and 103: make(map...) gives each call a map of its own.
MemoOf(i) == i

\* Lines 35 and 99: ssa.NewProgram gives each call a Program of its own.
ProgOf(i) == i

\* The ssa.Package the next CreatePackage call on the Program of call i
\* returns.
ConcNewPackage(i) == <<ProgOf(i), Len(progPkgs[ProgOf(i)]) + 1>>

\* The calls are made: the graph, and for each call the function and its
\* argument (the initial list, or the imports the checker left in pkg).
ConcStart ==
  /\ pc = "idle"
  /\ fn = "none"
  /\ \E g \in ConcGraphs,
        ill \in SmallSubsets(Pkgs, MaxIll),
        k \in [Invs -> {"Packages", "BuildPackage"}],
        ini \in [Invs -> SeqsUpTo(Pkgs, 1)],
        rts \in [Invs -> SmallSubsets(Pkgs, 1)] :
       /\ Imports' = g
       /\ IllTyped' = ill
       /\ inv' = [i \in Invs |->
                   [kind |-> k[i], pc |-> "called",
                    initial |-> IF k[i] = "Packages" THEN ini[i] ELSE <<>>,
                    roots |-> IF k[i] = "BuildPackage" THEN rts[i] ELSE {},
                    stack |-> <<>>, idx |-> 1, ssapkgs |-> <<>>, ssapkg |-> NoPkg]]
  /\ fn' = "concurrent"
  /\ pc' = "concurrent"
  /\ UNCHANGED <<caches, progPkgs, derefVars, TypesNil, fsetOf, initial,
                 mode, pathEmpty, fset, prog, pkgsVars, buildVars, stack, log>>

ConcFrame == <<derefVars, ssaVars>>

\* Packages, lines 29-37 and 57; BuildPackage, lines 99-104 and 114.
ConcEnter(i) ==
  /\ pc = "concurrent"
  /\ inv[i].pc = "called"
  /\ progPkgs' = MapStore(progPkgs, ProgOf(i), <<>>)
  /\ caches' = MapStore(caches, MemoOf(i), EmptyMap)
  /\ inv' = [inv EXCEPT ![i].pc = "walk",
                        ![i].stack = IF inv[i].kind = "BuildPackage"
                                       THEN <<[todo |-> inv[i].roots]>>
                                       ELSE <<>>]
  /\ UNCHANGED ConcFrame

\* create(p) of call i, lines 38-48, on top of the frames base.
ConcCreateCall(i, p, base) ==
  IF p \in DOMAIN caches[MemoOf(i)]
    THEN /\ inv' = [inv EXCEPT ![i].stack =
                      Append(base, [p |-> p, ssapkg |-> caches[MemoOf(i)][p], todo |-> {}])]
         /\ UNCHANGED <<caches, progPkgs>>
    ELSE IF NotWellTyped(p)
      THEN /\ caches' = [caches EXCEPT ![MemoOf(i)] = MapStore(@, p, NoPkg)]
           /\ inv' = [inv EXCEPT ![i].stack =
                        Append(base, [p |-> p, ssapkg |-> NoPkg, todo |-> {}])]
           /\ UNCHANGED progPkgs
      ELSE /\ progPkgs' = [progPkgs EXCEPT ![ProgOf(i)] =
                             Append(@, [pkg |-> TypesOf(p), syntax |-> SyntaxOf(p),
                                        ret |-> ConcNewPackage(i)])]
           /\ caches' = [caches EXCEPT ![MemoOf(i)] = MapStore(@, p, ConcNewPackage(i))]
           /\ inv' = [inv EXCEPT ![i].stack =
                        Append(base, [p |-> p, ssapkg |-> ConcNewPackage(i),
                                      todo |-> Imports[p]])]

\* Lines 58-59.
ConcPackagesLoop(i) ==
  /\ pc = "concurrent"
  /\ inv[i].kind = "Packages"
  /\ inv[i].pc = "walk"
  /\ inv[i].stack = <<>>
  /\ inv[i].idx <= Len(inv[i].initial)
  /\ ConcCreateCall(i, inv[i].initial[inv[i].idx], inv[i].stack)
  /\ UNCHANGED ConcFrame

\* Lines 50-51.
ConcCreateRecurse(i) ==
  /\ pc = "concurrent"
  /\ inv[i].kind = "Packages"
  /\ inv[i].pc = "walk"
  /\ inv[i].stack # <<>>
  /\ \E imp \in inv[i].stack[Len(inv[i].stack)].todo :
       ConcCreateCall(i, imp,
                      [inv[i].stack EXCEPT ![Len(inv[i].stack)].todo = @ \ {imp}])
  /\ UNCHANGED ConcFrame

\* Lines 54 and 59.
ConcCreateReturn(i) ==
  /\ pc = "concurrent"
  /\ inv[i].kind = "Packages"
  /\ inv[i].pc = "walk"
  /\ inv[i].stack # <<>>
  /\ inv[i].stack[Len(inv[i].stack)].todo = {}
  /\ inv' = [inv EXCEPT
               ![i].stack = SubSeq(@, 1, Len(@) - 1),
               ![i].ssapkgs = IF Len(inv[i].stack) = 1
                                THEN Append(@, inv[i].stack[1].ssapkg) ELSE @,
               ![i].idx = IF Len(inv[i].stack) = 1 THEN @ + 1 ELSE @]
  /\ UNCHANGED <<caches, progPkgs, ConcFrame>>

\* Line 61.
ConcPackagesReturn(i) ==
  /\ pc = "concurrent"
  /\ inv[i].kind = "Packages"
  /\ inv[i].pc = "walk"
  /\ inv[i].stack = <<>>
  /\ inv[i].idx > Len(inv[i].initial)
  /\ inv' = [inv EXCEPT ![i].pc = "done"]
  /\ UNCHANGED <<caches, progPkgs, ConcFrame>>

\* Lines 106-111.
ConcCreateAllStep(i) ==
  /\ pc = "concurrent"
  /\ inv[i].kind = "BuildPackage"
  /\ inv[i].pc = "walk"
  /\ inv[i].stack # <<>>
  /\ \E p \in inv[i].stack[Len(inv[i].stack)].todo :
       LET base == [inv[i].stack EXCEPT ![Len(inv[i].stack)].todo = @ \ {p}] IN
         IF p \notin DOMAIN caches[MemoOf(i)]
           THEN /\ caches' = [caches EXCEPT ![MemoOf(i)] = MapStore(@, p, TRUE)]
                /\ progPkgs' = [progPkgs EXCEPT ![ProgOf(i)] =
                                  Append(@, [pkg |-> p, syntax |-> Nil,
                                             ret |-> ConcNewPackage(i)])]
                /\ inv' = [inv EXCEPT ![i].stack = Append(base, [todo |-> Imports[p]])]
           ELSE /\ inv' = [inv EXCEPT ![i].stack = base]
                /\ UNCHANGED <<caches, progPkgs>>
  /\ UNCHANGED ConcFrame

\* Line 113; the outermost createAll returns to line 117.
ConcCreateAllReturn(i) ==
  /\ pc = "concurrent"
  /\ inv[i].kind = "BuildPackage"
  /\ inv[i].pc = "walk"
  /\ inv[i].stack # <<>>
  /\ inv[i].stack[Len(inv[i].stack)].todo = {}
  /\ inv' = [inv EXCEPT ![i].stack = SubSeq(@, 1, Len(@) - 1),
                        ![i].pc = IF Len(inv[i].stack) = 1 THEN "B117" ELSE @]
  /\ UNCHANGED <<caches, progPkgs, ConcFrame>>

\* Lines 117-119.
ConcPrimary(i) ==
  /\ pc = "concurrent"
  /\ inv[i].pc = "B117"
  /\ progPkgs' = [progPkgs EXCEPT ![ProgOf(i)] =
                    Append(@, [pkg |-> TargetOf(i), syntax |-> Files,
                               ret |-> ConcNewPackage(i)])]
  /\ inv' = [inv EXCEPT ![i].ssapkg = ConcNewPackage(i), ![i].pc = "done"]
  /\ UNCHANGED <<caches, ConcFrame>>

NextConc ==
  \/ ConcStart
  \/ \E i \in Invs : ConcEnter(i)
  \/ \E i \in Invs : ConcPackagesLoop(i)
  \/ \E i \in Invs : ConcCreateRecurse(i)
  \/ \E i \in Invs : ConcCreateReturn(i)
  \/ \E i \in Invs : ConcPackagesReturn(i)
  \/ \E i \in Invs : ConcCreateAllStep(i)
  \/ \E i \in Invs : ConcCreateAllReturn(i)
  \/ \E i \in Invs : ConcPrimary(i)

ConcSpec == Init /\ [][NextConc]_vars

ConcDone(i) == pc = "concurrent" /\ inv[i].pc = "done"

\* The packages call i is to create: for Packages the well-typed packages
\* its walk reaches, for BuildPackage all that the imports of its target
\* reach.
ConcReached(i) ==
  IF inv[i].kind = "Packages"
    THEN {p \in WellClosure(Range(inv[i].initial)) : ~NotWellTyped(p)}
    ELSE Closure(inv[i].roots)

\* The CreatePackage calls on the Program of call i for package p.
ConcCreated(i, p) ==
  {k \in 1..Len(progPkgs[ProgOf(i)]) : progPkgs[ProgOf(i)][k].pkg = p}

\* All ssa.Packages made for p, in whatever Program.
ConcInstances(p) ==
  UNION {{progPkgs[g][k].ret : k \in {n \in 1..Len(progPkgs[g]) :
                                        progPkgs[g][n].pkg = p}} :
         g \in DOMAIN progPkgs}

\* A finished call created in its own Program each package it is to create
\* exactly once and no other one, and its memo holds what its walk alone
\* visits.
OwnResults ==
  \A i \in Invs :
    ConcDone(i) =>
      /\ \A p \in Pkgs :
           Cardinality(ConcCreated(i, p)) = IF p \in ConcReached(i) THEN 1 ELSE 0
      /\ \A k \in 1..Len(progPkgs[ProgOf(i)]) :
           progPkgs[ProgOf(i)][k].ret[1] = ProgOf(i)
      /\ DOMAIN caches[MemoOf(i)] =
           IF inv[i].kind = "Packages"
             THEN WellClosure(Range(inv[i].initial))
             ELSE Closure(inv[i].roots)

\* A package both finished calls are to create has two ssa.Packages in all.
SharedTwice ==
  (\A i \in Invs : ConcDone(i)) =>
    \A p \in ConcReached(1) \cap ConcReached(2) :
      Cardinality(ConcInstances(p)) = 2

\* A step that is not a step of call i leaves its memo and its Program as
\* they were.
NoForeignWrite ==
  \A i \in DOMAIN inv :
    (inv[i].pc # "called" /\ inv'[i] = inv[i]) =>
      /\ caches'[MemoOf(i)] = caches[MemoOf(i)]
      /\ progPkgs'[ProgOf(i)] = progPkgs[ProgOf(i)]

\* C15: of two calls of Packages or BuildPackage running interleaved over
\* one graph, each has a Program and a memo of its own; no step of the
\* other call changes them; each call, when it has returned, has created in
\* its own Program exactly the packages it would create alone, so that its
\* walk was not steered by the memo of the other; and a package both calls
\* create has one ssa.Package in each Program, two in total.
Independent ==
  [][pc' = "concurrent" =>
       /\ \A i \in Invs, j \in Invs :
            i # j => ProgOf(i) # ProgOf(j) /\ MemoOf(i) # MemoOf(j)
       /\ NoForeignWrite
       /\ OwnResults'
       /\ SharedTwice']_vars

\* Both calls have returned, one of each kind, and a package that neither
\* was given directly was created by both.
SharedByBoth ==
  /\ pc = "concurrent"
  /\ \A i \in Invs : inv[i].pc = "done"
  /\ inv[1].kind # inv[2].kind
  /\ \E p \in ConcReached(1) \cap ConcReached(2) :
       /\ p \notin Range(inv[1].initial) \cup Range(inv[2].initial)
       /\ p \notin inv[1].roots \cup inv[2].roots
       /\ Cardinality(ConcInstances(p)) = 2

RECURSIVE WellReach(_)
\* The well-typed packages of S and those reachable from them along import
\* paths on which every package is well-typed.
WellReach(S) ==
  LET W == {p \in S : ~NotWellTyped(p)}
      T == W \cup {q \in UNION {Imports[p] : p \in W} : ~NotWellTyped(q)}
  IN IF T = W THEN W ELSE WellReach(T)

\* C16: when Packages returns, the packages with an ssa.Package in the memo,
\* which are also the packages CreatePackage was called for, are exactly the
\* well-typed packages reachable from the initial list along paths of
\* well-typed packages; and the keys of the memo that map to nil are exactly
\* the ill-typed packages that are in the initial list or imported directly
\* by a created package.
ExactCoverage ==
  PackagesDone =>
    /\ {p \in DOMAIN seen : seen[p] # Nil} = WellReach(Range(initial))
    /\ {log[k].syntax : k \in CreateCalls(log)} = WellReach(Range(initial))
    /\ {p \in DOMAIN seen : seen[p] = Nil} =
         {p \in Pkgs :
            /\ NotWellTyped(p)
            /\ \/ p \in Range(initial)
               \/ \E q \in DOMAIN seen : seen[q] # Nil /\ p \in Imports[q]}

\* Packages has returned; it created two packages or more, one of them
\* importing an ill-typed package that is not in the initial list and whose
\* own import was never visited.
CoveredPastSentinel ==
  /\ PackagesDone
  /\ Cardinality({p \in DOMAIN seen : seen[p] # Nil}) >= 2
  /\ \E q \in DOMAIN seen :
       /\ seen[q] = Nil
       /\ q \notin Range(initial)
       /\ \E p \in DOMAIN seen : seen[p] # Nil /\ q \in Imports[p]
       /\ \E r \in Imports[q] : r \notin DOMAIN seen

\* The CreatePackage calls of this run made with the syntax of p.
CreatesWithSyntaxOf(p) == {k \in CreateCalls(log) : log[k].syntax = SyntaxOf(p)}

\* C17: when Packages returns, two entries of the initial list that are the
\* same package have the same result, the one ssa.Package created for it or
\* nil when it is not well-typed, and CreatePackage was called for it at most
\* once.
RepeatsShareInstance ==
  PackagesDone =>
    \A i \in 1..Len(initial), j \in 1..Len(initial) :
      initial[i] = initial[j] =>
        /\ ssapkgs[i] = ssapkgs[j]
        /\ Cardinality(CreatesWithSyntaxOf(initial[i])) <= 1
        /\ IF NotWellTyped(initial[i])
             THEN ssapkgs[i] = Nil /\ CreatesWithSyntaxOf(initial[i]) = {}
             ELSE \E k \in CreatesWithSyntaxOf(initial[i]) : log[k].ret = ssapkgs[i]

\* Packages has returned for an initial list that names one well-typed
\* package twice.
RepeatedInitial ==
  /\ PackagesDone
  /\ Len(initial) = 2
  /\ initial[1] = initial[2]
  /\ ssapkgs[1] # Nil
  /\ ssapkgs[2] = ssapkgs[1]
  /\ Imports[initial[1]] # {}

\* ---------------------------------------------------------------- lintdsl
\* Dereference and DereferenceR of lint/lintdsl.  A type is a number;
\* elemOf[T] is the element type when T.Underlying() is a pointer and Nil
\* when it is not.  elemOf[T] = T is a type declared as type P *P, and
\* longer cycles are declarations such as type A *B; type B *A.
NumTypes == 3
Types == 1..NumTypes

\* The frames the goroutine stack holds; a chain of pointers through
\* distinct types needs NumTypes frames at most, so only a recursion that
\* never ends finds the stack full.
MaxDerefDepth == NumTypes + 1

\* The call: the type declarations, the function and its argument.
DerefCall ==
  /\ pc = "idle"
  /\ fn = "none"
  /\ dpc = "idle"
  /\ elemOf' \in [Types -> {Nil} \cup Types]
  /\ dfn' \in {"Dereference", "DereferenceR"}
  /\ darg' \in Types
  /\ dcur' = darg'
  /\ ddepth' = 1
  /\ dpc' = "entry"
  /\ dres' = Nil
  /\ UNCHANGED <<concVars, ssaVars>>

\* Dereference, lines 193-198.
Dereference ==
  /\ dpc = "entry"
  /\ dfn = "Dereference"
  /\ dres' = IF elemOf[dcur] # Nil THEN elemOf[dcur] ELSE dcur
  /\ dpc' = "done"
  /\ ddepth' = 0
  /\ UNCHANGED <<elemOf, dfn, darg, dcur, concVars, ssaVars>>

\* DereferenceR, lines 203-205: the underlying type is a pointer, and the
\* function calls itself on the element type.  The call that finds the
\* stack full ends the program.
DereferenceRRecurse ==
  /\ dpc = "entry"
  /\ dfn = "DereferenceR"
  /\ elemOf[dcur] # Nil
  /\ IF ddepth >= MaxDerefDepth
       THEN /\ dpc' = "overflow"
            /\ UNCHANGED <<dcur, ddepth>>
       ELSE /\ dcur' = elemOf[dcur]
            /\ ddepth' = ddepth + 1
            /\ dpc' = dpc
  /\ UNCHANGED <<elemOf, dfn, darg, dres, concVars, ssaVars>>

\* DereferenceR, lines 203 and 207: the underlying type is no pointer; T is
\* returned, and every calling frame returns it on (line 205).
DereferenceRReturn ==
  /\ dpc = "entry"
  /\ dfn = "DereferenceR"
  /\ elemOf[dcur] = Nil
  /\ dres' = dcur
  /\ dpc' = "done"
  /\ ddepth' = 0
  /\ UNCHANGED <<elemOf, dfn, darg, dcur, concVars, ssaVars>>

NextDeref ==
  \/ DerefCall
  \/ Dereference
  \/ DereferenceRRecurse
  \/ DereferenceRReturn

DerefSpec == Init /\ [][NextDeref]_vars

\* C18, as stated: DereferenceR never runs out of stack, whatever the type,
\* a pointer to itself included; what it returns has an underlying type that
\* is no pointer, and is T itself when the underlying type of T is no
\* pointer; Dereference returns the element type of a pointer and T
\* otherwise.
DereferenceRTotal ==
  /\ dpc # "overflow"
  /\ (dfn = "DereferenceR" /\ dpc = "done") =>
       /\ elemOf[dres] = Nil
       /\ elemOf[darg] = Nil => dres = darg
  /\ (dfn = "Dereference" /\ dpc = "done") =>
       dres = IF elemOf[darg] # Nil THEN elemOf[darg] ELSE darg

====
